---- MODULE Spec2Model ----
(***************************************************************************)
(* Model of tools/compute_comparison_metrics.py: the per-tool confusion    *)
(* matrix (ToolExecutionResult.confusion_matrix) and the pairwise          *)
(* comparison (compute_comparison_metrics) over a table of                 *)
(* (scenario, tool) -> (execution, comparison) records.                    *)
(*                                                                         *)
(* A Python dict is a sequence of <<key, value>> entries with unique keys, *)
(* kept in insertion order; status strings are TLA+ strings, and the       *)
(* Python test `sub in s` is the substring search Contains(sub, s).        *)
(***************************************************************************)
EXTENDS Integers, Sequences, FiniteSets, TLC

\* ---------------------------------------------------------------- bounds
\* The number of (tool, scenario) entries the loaded table may hold.
MaxOutputs == 2

\* The scenarios of scenarios.json, in the order of the file.
ScenarioNames == <<"s1", "s2">>

\* ------------------------------------------------------- program constants
Tools == {"diff3", "mergiraf-semi", "mergiraf"}

ToolOrder == <<"diff3", "mergiraf-semi", "mergiraf">>

pairs_of_tools ==
    << <<"diff3", "mergiraf">>,
       <<"diff3", "mergiraf-semi">>,
       <<"mergiraf-semi", "mergiraf">> >>

Buckets == {"TP", "TN", "FP", "FN", "error"}

Metrics == {"aTP", "aTN", "aFP", "aFN"}

DefaultStatus == <<"UNKNOWN_EXECUTION", "NO_OUTPUT">>

\* Status strings a caller can hand to add_output.  "FAILED (exit 1)" is the
\* annotated form the runner records for a failed tool.
ExecutionStrings ==
    {"SUCCESS", "CONFLICT", "FAILED", "FAILED (exit 1)", "NO_OUTPUT", "UNKNOWN"}

ComparisonStrings == {"MATCH", "DIFFER", "NO_OUTPUT"}

\* ------------------------------------------------------------ Python str
\* `sub in s` for Python strings.
Contains(sub, s) ==
    \E i \in 0..(Len(s) - Len(sub)) : SubSeq(s, i + 1, i + Len(sub)) = sub

\* ----------------------------------------------------------- Python dict
Keys(d) == {d[i][1] : i \in 1..Len(d)}

IndexOf(d, k) == CHOOSE i \in 1..Len(d) : d[i][1] = k

\* d.get(k, default)
Get(d, k, default) == IF k \in Keys(d) THEN d[IndexOf(d, k)][2] ELSE default

\* d[k] = v : an existing key keeps its position, a new key goes last.
Put(d, k, v) ==
    IF k \in Keys(d)
    THEN [d EXCEPT ![IndexOf(d, k)] = <<k, v>>]
    ELSE Append(d, <<k, v>>)

SeqToSet(s) == {s[i] : i \in 1..Len(s)}

\* ------------------------------------------------------------------ state
VARIABLES
    json_tool_results,      \* tool name -> ToolExecutionResult.outputs
    expected_by_scenario,   \* keys of the scenario universe, in dict order
    matrices,               \* tool name -> confusion_matrix() of that tool
    comparison_results,     \* (tool_a, tool_b) -> comparison
    pc

vars == <<json_tool_results, expected_by_scenario, matrices, comparison_results, pc>>

\* State of tools/run_merge_examples.py (main).
VARIABLES
    args,               \* [build, dry_run]: the parsed command line
    complete,           \* per scenario directory: are all four input files there
    scenario_index,     \* position of the loop over sorted(examples_dir.iterdir())
    tool_results,       \* tool name -> ToolExecutionResult.outputs, filled by the run
    executed,           \* the external commands run so far, in order
    runtime_matrices,   \* the confusion matrices printed at the end
    raised,             \* the exception that ended main, "" if none
    rpc

rvars == <<args, complete, scenario_index, tool_results, executed,
           runtime_matrices, raised, rpc>>

\* ------------------------------------------------------- confusion_matrix
EmptyMatrix ==
    [scenarios |-> [b \in Buckets |-> <<>>], results |-> [b \in Buckets |-> 0]]

\* Mutant of MatrixOf: a clean merge is rated TN when it differs and FN when
\* it matches (the two arms of the conditional exchanged).
MatrixOf_SwappedMerge(execution, comparison) ==
    LET made_merge == (execution = "SUCCESS")
    IN  IF Contains("FAILED", execution) \/ Contains("NO_OUTPUT", execution)
        THEN "error"
        ELSE IF made_merge
             THEN (IF comparison = "MATCH" THEN "FN" ELSE "TN")
             ELSE (IF comparison = "MATCH" THEN "TP" ELSE "FP")

\* Mutant of MatrixOf: the error test compares the whole string instead of
\* searching it.
MatrixOf_ExactError(execution, comparison) ==
    LET made_merge == (execution = "SUCCESS")
    IN  IF execution = "FAILED" \/ execution = "NO_OUTPUT"
        THEN "error"
        ELSE IF made_merge
             THEN (IF comparison = "MATCH" THEN "TN" ELSE "FN")
             ELSE (IF comparison = "MATCH" THEN "TP" ELSE "FP")

\* The bucket of one (execution, comparison) status.
MatrixOf(execution, comparison) ==
    LET made_merge == (execution = "SUCCESS")
    IN  IF Contains("FAILED", execution) \/ Contains("NO_OUTPUT", execution)
        THEN "error"
        ELSE IF made_merge
             THEN (IF comparison = "MATCH" THEN "TN" ELSE "FN")
             ELSE (IF comparison = "MATCH" THEN "TP" ELSE "FP")

\* Mutant of MatrixStep: the count is updated only inside the two scoring
\* branches, so an error scenario is listed but not counted.
MatrixStep_ErrorNotCounted(acc, scenario, status) ==
    LET matrix == MatrixOf(status[1], status[2])
    IN  [scenarios |-> [acc.scenarios EXCEPT ![matrix] = Append(@, scenario)],
         results   |-> IF matrix = "error"
                       THEN acc.results
                       ELSE [acc.results EXCEPT ![matrix] = @ + 1]]

\* One iteration of the loop over self.outputs.items().
MatrixStep(acc, scenario, status) ==
    LET matrix == MatrixOf(status[1], status[2])
    IN  [scenarios |-> [acc.scenarios EXCEPT ![matrix] = Append(@, scenario)],
         results   |-> [acc.results EXCEPT ![matrix] = @ + 1]]

RECURSIVE MatrixLoop(_, _, _)
MatrixLoop(acc, outputs, i) ==
    IF i > Len(outputs)
    THEN acc
    ELSE MatrixLoop(MatrixStep(acc, outputs[i][1], outputs[i][2]), outputs, i + 1)

confusion_matrix(outputs) == MatrixLoop(EmptyMatrix, outputs, 1)

\* ---------------------------------------------- compute_comparison_metrics
EmptyStats ==
    [count |-> [m \in Metrics |-> 0], scenarios |-> [m \in Metrics |-> <<>>]]

\* comparison[tool][metric] += 1; comparison[tool]["scenarios"][metric].append(scenario)
Award(comparison, tool, metric, scenario) ==
    [comparison EXCEPT ![tool].count[metric] = @ + 1,
                       ![tool].scenarios[metric] = Append(@, scenario)]

\* Mutant of OneSidedFailure: the tool that did run is also blamed when its
\* output does not match.
OneSidedFailure_BlameOther(comparison, other, execution_other, comparison_other, scenario) ==
    IF comparison_other = "MATCH"
    THEN Award(comparison, other,
               IF execution_other = "SUCCESS" THEN "aTN" ELSE "aTP", scenario)
    ELSE Award(comparison, other,
               IF execution_other = "SUCCESS" THEN "aFN" ELSE "aFP", scenario)

\* One tool is "FAILED" and the other is not: only the other tool, and only
\* with a MATCH, is scored.
OneSidedFailure(comparison, other, execution_other, comparison_other, scenario) ==
    IF comparison_other = "MATCH"
    THEN Award(comparison, other,
               IF execution_other = "SUCCESS" THEN "aTN" ELSE "aTP", scenario)
    ELSE comparison

\* Mutant of SameExecution: the test for equal comparison statuses is missing,
\* so two tools that agree are scored as a divergence.
SameExecution_NoSkip(comparison, tool_a, tool_b, ea, ca, eb, cb, scenario) ==
    IF ca = "MATCH"
    THEN LET metric_a == IF ea = "SUCCESS" THEN "aTN" ELSE "aTP"
             metric_b == IF eb = "SUCCESS" THEN "aFN" ELSE "aFP"
         IN  Award(Award(comparison, tool_a, metric_a, scenario),
                   tool_b, metric_b, scenario)
    ELSE LET metric_b == IF eb = "SUCCESS" THEN "aTN" ELSE "aTP"
             metric_a == IF ea = "SUCCESS" THEN "aFN" ELSE "aFP"
         IN  Award(Award(comparison, tool_b, metric_b, scenario),
                   tool_a, metric_a, scenario)

\* `if execution_status_a == execution_status_b:` branch: equal comparison
\* statuses are skipped, otherwise the tool examined first with a MATCH is
\* credited and the other one blamed.
SameExecution(comparison, tool_a, tool_b, ea, ca, eb, cb, scenario) ==
    IF ca = cb
    THEN comparison
    ELSE IF ca = "MATCH"
    THEN LET metric_a == IF ea = "SUCCESS" THEN "aTN" ELSE "aTP"
             metric_b == IF eb = "SUCCESS" THEN "aFN" ELSE "aFP"
         IN  Award(Award(comparison, tool_a, metric_a, scenario),
                   tool_b, metric_b, scenario)
    ELSE LET metric_b == IF eb = "SUCCESS" THEN "aTN" ELSE "aTP"
             metric_a == IF ea = "SUCCESS" THEN "aFN" ELSE "aFP"
         IN  Award(Award(comparison, tool_b, metric_b, scenario),
                   tool_a, metric_a, scenario)

\* Mutant of DifferentExecution: the blamed tool's bucket is chosen from the
\* other tool's execution status (a copy-and-paste slip).
DifferentExecution_CopyPaste(comparison, tool_a, tool_b, ea, ca, eb, cb, scenario) ==
    IF ca = "MATCH"
    THEN LET metric_a == IF ea = "SUCCESS" THEN "aTN" ELSE "aTP"
             metric_b == IF ea = "SUCCESS" THEN "aFN" ELSE "aFP"
         IN  Award(Award(comparison, tool_a, metric_a, scenario),
                   tool_b, metric_b, scenario)
    ELSE LET metric_b == IF eb = "SUCCESS" THEN "aTN" ELSE "aTP"
             metric_a == IF eb = "SUCCESS" THEN "aFN" ELSE "aFP"
         IN  Award(Award(comparison, tool_b, metric_b, scenario),
                   tool_a, metric_a, scenario)

\* Mutant of DifferentExecution: tool B's comparison is examined first.
DifferentExecution_BFirst(comparison, tool_a, tool_b, ea, ca, eb, cb, scenario) ==
    IF cb = "MATCH"
    THEN LET metric_b == IF eb = "SUCCESS" THEN "aTN" ELSE "aTP"
             metric_a == IF ea = "SUCCESS" THEN "aFN" ELSE "aFP"
         IN  Award(Award(comparison, tool_b, metric_b, scenario),
                   tool_a, metric_a, scenario)
    ELSE LET metric_a == IF ea = "SUCCESS" THEN "aTN" ELSE "aTP"
             metric_b == IF eb = "SUCCESS" THEN "aFN" ELSE "aFP"
         IN  Award(Award(comparison, tool_a, metric_a, scenario),
                   tool_b, metric_b, scenario)

\* `else:` branch: different execution status.
DifferentExecution(comparison, tool_a, tool_b, ea, ca, eb, cb, scenario) ==
    IF ca = "MATCH"
    THEN LET metric_a == IF ea = "SUCCESS" THEN "aTN" ELSE "aTP"
             metric_b == IF eb = "SUCCESS" THEN "aFN" ELSE "aFP"
         IN  Award(Award(comparison, tool_a, metric_a, scenario),
                   tool_b, metric_b, scenario)
    ELSE LET metric_b == IF eb = "SUCCESS" THEN "aTN" ELSE "aTP"
             metric_a == IF ea = "SUCCESS" THEN "aFN" ELSE "aFP"
         IN  Award(Award(comparison, tool_b, metric_b, scenario),
                   tool_a, metric_a, scenario)

\* The status the comparison reads for (tool, scenario).
StatusOf(results, tool, scenario) == Get(results[tool], scenario, DefaultStatus)

\* Mutant of CompareScenario: the `continue` that ends the first one-sided
\* failure rule is missing, so the scenario is scored again by the branches
\* below it.
CompareScenario_NoContinue(comparison, tool_a, tool_b, results, scenario) ==
    LET sa == StatusOf(results, tool_a, scenario)
        sb == StatusOf(results, tool_b, scenario)
        execution_status_a == sa[1]
        comparison_status_a == sa[2]
        execution_status_b == sb[1]
        comparison_status_b == sb[2]
        after_rule_1 ==
            IF execution_status_a = "FAILED" /\ execution_status_b # "FAILED"
            THEN OneSidedFailure(comparison, tool_b, execution_status_b,
                                 comparison_status_b, scenario)
            ELSE comparison
    IN  IF execution_status_b = "FAILED" /\ execution_status_a # "FAILED"
        THEN OneSidedFailure(after_rule_1, tool_a, execution_status_a,
                             comparison_status_a, scenario)
        ELSE IF execution_status_a = execution_status_b
        THEN SameExecution(after_rule_1, tool_a, tool_b,
                           execution_status_a, comparison_status_a,
                           execution_status_b, comparison_status_b, scenario)
        ELSE DifferentExecution(after_rule_1, tool_a, tool_b,
                                execution_status_a, comparison_status_a,
                                execution_status_b, comparison_status_b, scenario)

\* The body of `for scenario in expected_by_scenario.keys()`.
CompareScenario(comparison, tool_a, tool_b, results, scenario) ==
    LET sa == StatusOf(results, tool_a, scenario)
        sb == StatusOf(results, tool_b, scenario)
        execution_status_a == sa[1]
        comparison_status_a == sa[2]
        execution_status_b == sb[1]
        comparison_status_b == sb[2]
    IN  IF execution_status_a = "FAILED" /\ execution_status_b # "FAILED"
        THEN OneSidedFailure(comparison, tool_b, execution_status_b,
                             comparison_status_b, scenario)
        ELSE IF execution_status_b = "FAILED" /\ execution_status_a # "FAILED"
        THEN OneSidedFailure(comparison, tool_a, execution_status_a,
                             comparison_status_a, scenario)
        ELSE IF execution_status_a = execution_status_b
        THEN SameExecution(comparison, tool_a, tool_b,
                           execution_status_a, comparison_status_a,
                           execution_status_b, comparison_status_b, scenario)
        ELSE DifferentExecution(comparison, tool_a, tool_b,
                                execution_status_a, comparison_status_a,
                                execution_status_b, comparison_status_b, scenario)

RECURSIVE CompareLoop(_, _, _, _, _, _)
CompareLoop(comparison, tool_a, tool_b, results, universe, i) ==
    IF i > Len(universe)
    THEN comparison
    ELSE CompareLoop(CompareScenario(comparison, tool_a, tool_b, results, universe[i]),
                     tool_a, tool_b, results, universe, i + 1)

\* The comparison of one pair: fresh accumulators, then the whole universe.
ComparePair(tool_a, tool_b, results, universe) ==
    CompareLoop([t \in {tool_a, tool_b} |-> EmptyStats],
                tool_a, tool_b, results, universe, 1)

PairSet == {pairs_of_tools[i] : i \in 1..Len(pairs_of_tools)}

\* Mutant of compute_comparison_metrics: the accumulators are created once,
\* before the loop over pairs_of_tools, so every pair adds to the same buckets
\* and every entry of the result refers to them.
RECURSIVE SharedLoop(_, _, _, _)
SharedLoop(comparison, results, universe, i) ==
    IF i > Len(pairs_of_tools)
    THEN comparison
    ELSE SharedLoop(CompareLoop(comparison, pairs_of_tools[i][1], pairs_of_tools[i][2],
                                results, universe, 1),
                    results, universe, i + 1)

compute_comparison_metrics_SharedBuckets(results, universe) ==
    LET shared == SharedLoop([t \in Tools |-> EmptyStats], results, universe, 1)
    IN  [p \in PairSet |-> [t \in {p[1], p[2]} |-> shared[t]]]

compute_comparison_metrics(results, universe) ==
    [p \in PairSet |-> ComparePair(p[1], p[2], results, universe)]

\* ------------------------------------------------------------- operations
TotalOutputs == Len(json_tool_results["diff3"])
                + Len(json_tool_results["mergiraf-semi"])
                + Len(json_tool_results["mergiraf"])

ToolIndex(tool) == CHOOSE i \in 1..Len(ToolOrder) : ToolOrder[i] = tool

\* run_merge_examples.py before main() is entered.
RunnerNotStarted ==
    /\ args = [build |-> FALSE, dry_run |-> FALSE]
    /\ complete = [i \in 1..Len(ScenarioNames) |-> TRUE]
    /\ scenario_index = 1
    /\ tool_results = [t \in Tools |-> <<>>]
    /\ executed = <<>>
    /\ runtime_matrices = <<>>
    /\ raised = ""
    /\ rpc = "idle"

Init ==
    /\ json_tool_results = [t \in Tools |-> <<>>]
    /\ expected_by_scenario = <<>>
    /\ matrices = <<>>
    /\ comparison_results = <<>>
    /\ pc = "load"
    /\ RunnerNotStarted

\* main, loading loop: the next scenario of scenarios.json enters the universe.
\* Scenario names are arbitrary labels, taken in the order of ScenarioNames.
next_scenario ==
    /\ pc = "load"
    /\ Len(expected_by_scenario) < Len(ScenarioNames)
    /\ expected_by_scenario' =
           Append(expected_by_scenario, ScenarioNames[Len(expected_by_scenario) + 1])
    /\ UNCHANGED <<json_tool_results, matrices, comparison_results, pc>>
    /\ UNCHANGED rvars

\* ToolExecutionResult.add_output(scenario, status), called for the scenario
\* being loaded, tool by tool in the order of main's loading loop.  The table
\* handed to compute_comparison_metrics need not hold an entry for every
\* (tool, scenario): a tool without one is read as DefaultStatus.
add_output(tool, status) ==
    /\ pc = "load"
    /\ expected_by_scenario # <<>>
    /\ TotalOutputs < MaxOutputs
    /\ LET scenario == expected_by_scenario[Len(expected_by_scenario)]
       IN  /\ \A t \in Tools :
                  scenario \in Keys(json_tool_results[t]) => ToolIndex(t) < ToolIndex(tool)
           /\ json_tool_results' =
                  [json_tool_results EXCEPT ![tool] = Put(@, scenario, status)]
    /\ UNCHANGED <<expected_by_scenario, matrices, comparison_results, pc>>
    /\ UNCHANGED rvars

\* print_confusion_matrix(json_tool_results): one confusion_matrix() per tool.
print_confusion_matrix(results) == [t \in Tools |-> confusion_matrix(results[t])]

\* main, after loading: print_confusion_matrix(json_tool_results), then
\* compute_comparison_metrics(json_tool_results, expected_by_scenario).
report ==
    /\ pc = "load"
    /\ matrices' = print_confusion_matrix(json_tool_results)
    /\ comparison_results' =
           compute_comparison_metrics(json_tool_results, expected_by_scenario)
    /\ pc' = "done"
    /\ UNCHANGED <<json_tool_results, expected_by_scenario>>
    /\ UNCHANGED rvars

Next ==
    \/ next_scenario
    \/ \E t \in Tools, e \in ExecutionStrings, c \in ComparisonStrings :
           add_output(t, <<e, c>>)
    \/ report

Spec == Init /\ [][Next]_vars

\* ------------------------------------------- run_merge_examples.py : main
\* Exit codes an external merge command ends with.
ReturnCodes == {0, 1, 2}

\* Exit codes of `git merge-file -p`: 0 for a clean merge, else conflicts.
MergeFileCodes == {0, 1}

\* merged.exists(): truncate(out_path) has written the file before every
\* comparison, in a dry run too.
merged_exists == TRUE

\* f"{word} (exit {returncode})"
ExitText(word, returncode) == word \o " (exit " \o ToString(returncode) \o ")"

\* What subprocess.run gives back; run_tool returns None under --dry-run.
None == [none |-> TRUE]

Completed(returncode, markers) ==
    [none |-> FALSE, returncode |-> returncode, markers |-> markers]

\* run_tool(cmd_template, out_path): the value bound to r.
run_tool(returncode, markers) ==
    IF args.dry_run THEN None ELSE Completed(returncode, markers)

\* compare_and_save(merged, tag): the comparison status, `differs` being the
\* outcome of `diff -u expected merged` when it is run.
compare_and_save(exists, differs) ==
    IF ~exists THEN "NO_OUTPUT"
    ELSE IF args.dry_run THEN "DRY_RUN"
    ELSE IF differs THEN "DIFFER"
    ELSE "MATCH"

\* The commands compare_and_save runs.
DiffCommands == IF args.dry_run THEN <<>> ELSE <<"diff">>

\* The status a candidate loop leaves for a completed process r: exit codes
\* in `clean` are looked at for conflict markers, the others are failures.
CandidateStatus(r, clean) ==
    IF r.returncode \in clean
    THEN (IF r.markers THEN ExitText("CONFLICTS", r.returncode) ELSE "SUCCESS")
    ELSE ExitText("FAILED", r.returncode)

CurrentScenario == ScenarioNames[scenario_index]

RunnerInit ==
    /\ json_tool_results = [t \in Tools |-> <<>>]
    /\ expected_by_scenario = <<>>
    /\ matrices = <<>>
    /\ comparison_results = <<>>
    /\ pc = "load"
    /\ args \in [build : BOOLEAN, dry_run : BOOLEAN]
    /\ complete \in [1..Len(ScenarioNames) -> BOOLEAN]
    /\ scenario_index = 1
    /\ tool_results = [t \in Tools |-> <<>>]
    /\ executed = <<>>
    /\ runtime_matrices = <<>>
    /\ raised = ""
    /\ rpc = "build"

\* `if args.build:` : cargo build, unless Cargo.toml is missing or --dry-run.
run_build ==
    /\ rpc = "build"
    /\ \E cargo_toml \in BOOLEAN, returncode \in ReturnCodes :
           IF args.build /\ cargo_toml /\ ~args.dry_run
           THEN /\ executed' = Append(executed, "cargo build")
                /\ rpc' = IF returncode # 0 THEN "exit" ELSE "scenario"
           ELSE /\ rpc' = "scenario"
                /\ UNCHANGED executed
    /\ UNCHANGED <<args, complete, scenario_index, tool_results, runtime_matrices, raised>>
    /\ UNCHANGED vars

\* Head of the loop over the scenario directories: a directory with a missing
\* input file is skipped.
next_directory ==
    /\ rpc = "scenario"
    /\ IF scenario_index > Len(ScenarioNames)
       THEN rpc' = "matrices" /\ UNCHANGED scenario_index
       ELSE IF ~complete[scenario_index]
       THEN scenario_index' = scenario_index + 1 /\ UNCHANGED rpc
       ELSE rpc' = "diff3" /\ UNCHANGED scenario_index
    /\ UNCHANGED <<args, complete, tool_results, executed, runtime_matrices, raised>>
    /\ UNCHANGED vars

\* 1) git merge-file, its comparison, add_output for diff3.
run_diff3 ==
    /\ rpc = "diff3"
    /\ \E returncode \in MergeFileCodes, differs \in BOOLEAN :
           LET diff3_status ==
                   IF args.dry_run THEN "DRY_RUN"
                   ELSE IF returncode = 0 THEN "SUCCESS"
                   ELSE ExitText("CONFLICTS", returncode)
               diff3_compare == compare_and_save(merged_exists, differs)
           IN  /\ tool_results' =
                      [tool_results EXCEPT !["diff3"] =
                           Put(@, CurrentScenario, <<diff3_status, diff3_compare>>)]
               /\ executed' = executed
                      \o (IF args.dry_run THEN <<>> ELSE <<"git merge-file">>)
                      \o DiffCommands
    /\ rpc' = "mergiraf-semi"
    /\ UNCHANGED <<args, complete, scenario_index, runtime_matrices, raised>>
    /\ UNCHANGED vars

\* The candidate loop of one tool, its comparison and its add_output.  r is
\* what run_tool returned; reading r.returncode of None raises AttributeError.
RunCandidate(tool, command, clean, next_pc, r, differs) ==
    IF r.none
    THEN /\ raised' = "AttributeError"
         /\ rpc' = "raised"
         /\ UNCHANGED <<tool_results, executed, scenario_index>>
    ELSE /\ tool_results' =
                [tool_results EXCEPT ![tool] =
                     Put(@, CurrentScenario,
                         <<CandidateStatus(r, clean), compare_and_save(merged_exists, differs)>>)]
         /\ executed' = executed \o <<command>> \o DiffCommands
         /\ rpc' = next_pc
         /\ scenario_index' =
                IF next_pc = "scenario" THEN scenario_index + 1 ELSE scenario_index
         /\ UNCHANGED raised

\* 2) mergiraf-semi: only exit code 0 is looked at for conflict markers.
run_mergiraf_semi ==
    /\ rpc = "mergiraf-semi"
    /\ \E returncode \in ReturnCodes, markers \in BOOLEAN, differs \in BOOLEAN :
           RunCandidate("mergiraf-semi", "cargo run -- merge", {0}, "mergiraf",
                        run_tool(returncode, markers), differs)
    /\ UNCHANGED <<args, complete, runtime_matrices>>
    /\ UNCHANGED vars

\* 2) mergiraf: exit codes 0 and 1 are looked at for conflict markers.
run_mergiraf ==
    /\ rpc = "mergiraf"
    /\ \E returncode \in ReturnCodes, markers \in BOOLEAN, differs \in BOOLEAN :
           RunCandidate("mergiraf", "mergiraf merge", {0, 1}, "scenario",
                        run_tool(returncode, markers), differs)
    /\ UNCHANGED <<args, complete, runtime_matrices>>
    /\ UNCHANGED vars

\* The records of scenarios.json the final step may find: none, or one
\* scenario without any tool data (every tool then defaults to NO_OUTPUT).
JsonTables ==
    { [t \in Tools |-> <<>>],
      [t \in Tools |-> << <<ScenarioNames[1], <<"NO_OUTPUT", "NO_OUTPUT">>>> >>] }

\* After all scenarios: the confusion matrices, from scenarios.json when it
\* exists and from the run's own results otherwise.
print_matrices ==
    /\ rpc = "matrices"
    /\ \E json_exists \in BOOLEAN, json_table \in JsonTables :
           runtime_matrices' =
               IF json_exists
               THEN print_confusion_matrix(json_table)
               ELSE print_confusion_matrix(tool_results)
    /\ rpc' = "done"
    /\ UNCHANGED <<args, complete, scenario_index, tool_results, executed, raised>>
    /\ UNCHANGED vars

RunnerNext ==
    \/ run_build
    \/ next_directory
    \/ run_diff3
    \/ run_mergiraf_semi
    \/ run_mergiraf
    \/ print_matrices

SpecRunner == RunnerInit /\ [][RunnerNext]_<<vars, rvars>>

\* ------------------------------------------------------------ properties
Done == pc = "done"

Count(seq, x) == Cardinality({i \in DOMAIN seq : seq[i] = x})

\* The confusion-matrix buckets of tool t whose list holds scenario s.
BucketsHolding(t, s) == {b \in Buckets : Count(matrices[t].scenarios[b], s) > 0}

TimesListed(t, s) ==
    Count(matrices[t].scenarios["TP"], s) + Count(matrices[t].scenarios["TN"], s)
    + Count(matrices[t].scenarios["FP"], s) + Count(matrices[t].scenarios["FN"], s)
    + Count(matrices[t].scenarios["error"], s)

SumResults(t) ==
    matrices[t].results["TP"] + matrices[t].results["TN"] + matrices[t].results["FP"]
    + matrices[t].results["FN"] + matrices[t].results["error"]

\* C1: for every tool, confusion_matrix() puts each scenario of the tool into
\* exactly one of TP, TN, FP, FN, error: the five lists are pairwise disjoint,
\* their union is the tool's scenario set, and the five counts sum to the
\* number of scenarios.
C1_Partition ==
    Done =>
        \A t \in Tools :
            LET outputs == json_tool_results[t]
                listed(b) == SeqToSet(matrices[t].scenarios[b])
            IN  /\ \A b1, b2 \in Buckets : b1 # b2 => listed(b1) \cap listed(b2) = {}
                /\ UNION {listed(b) : b \in Buckets} = Keys(outputs)
                /\ \A s \in Keys(outputs) : TimesListed(t, s) = 1
                /\ SumResults(t) = Len(outputs)

\* A tool with two scenarios that went to two different buckets, one of them
\* the error bucket.
C1_Witness ==
    /\ Done
    /\ \E t \in Tools :
           /\ Len(json_tool_results[t]) >= 2
           /\ matrices[t].scenarios["error"] # <<>>
           /\ \E b \in Buckets \ {"error"} : matrices[t].scenarios[b] # <<>>

\* C2: (SUCCESS, MATCH) is TN, (SUCCESS, DIFFER) is FN, (CONFLICT, MATCH) is TP
\* and (CONFLICT, DIFFER) is FP, whatever else the tool holds.
C2_FourWayRule ==
    Done =>
        \A t \in Tools : \A i \in 1..Len(json_tool_results[t]) :
            LET s  == json_tool_results[t][i][1]
                st == json_tool_results[t][i][2]
            IN  /\ st = <<"SUCCESS", "MATCH">>   => BucketsHolding(t, s) = {"TN"}
                /\ st = <<"SUCCESS", "DIFFER">>  => BucketsHolding(t, s) = {"FN"}
                /\ st = <<"CONFLICT", "MATCH">>  => BucketsHolding(t, s) = {"TP"}
                /\ st = <<"CONFLICT", "DIFFER">> => BucketsHolding(t, s) = {"FP"}

\* One tool holds a differing clean merge and a matching conflict report, and
\* both have been classified.
C2_Witness ==
    /\ Done
    /\ \E t \in Tools : \E i, j \in 1..Len(json_tool_results[t]) :
           /\ json_tool_results[t][i][2] = <<"SUCCESS", "DIFFER">>
           /\ json_tool_results[t][j][2] = <<"CONFLICT", "MATCH">>
           /\ matrices[t].results["FN"] = 1
           /\ matrices[t].results["TP"] = 1

\* C3: a scenario whose execution string contains FAILED ("FAILED",
\* "FAILED (exit 1)") is in the error bucket and in no other, for every
\* comparison value.
C3_FailedIsError ==
    Done =>
        \A t \in Tools : \A i \in 1..Len(json_tool_results[t]) :
            LET s  == json_tool_results[t][i][1]
                st == json_tool_results[t][i][2]
            IN  Contains("FAILED", st[1]) => BucketsHolding(t, s) = {"error"}

\* An annotated failure whose output nevertheless matches has been classified,
\* next to a plain failure.
C3_Witness ==
    /\ Done
    /\ \E t \in Tools : \E i, j \in 1..Len(json_tool_results[t]) :
           /\ json_tool_results[t][i][2] = <<"FAILED (exit 1)", "MATCH">>
           /\ json_tool_results[t][j][2][1] = "FAILED"
           /\ matrices[t].results["error"] = 2

\* C4: a scenario whose execution status is FAILED, NO_OUTPUT or UNKNOWN is in
\* the error bucket and never in TP, TN, FP or FN.
C4_UnusableIsError ==
    Done =>
        \A t \in Tools : \A i \in 1..Len(json_tool_results[t]) :
            LET s  == json_tool_results[t][i][1]
                st == json_tool_results[t][i][2]
            IN  (\/ Contains("FAILED", st[1])
                 \/ Contains("NO_OUTPUT", st[1])
                 \/ st[1] = "UNKNOWN")
                => BucketsHolding(t, s) = {"error"}

Universe == SeqToSet(expected_by_scenario)

Status(t, s) == StatusOf(json_tool_results, t, s)

\* The pairwise buckets of tool t, in the comparison of pair p, whose list
\* holds scenario s.
MetricsHolding(p, t, s) ==
    {m \in Metrics : Count(comparison_results[p][t].scenarios[m], s) > 0}

TimesAwarded(p, t, s) ==
    Count(comparison_results[p][t].scenarios["aTP"], s)
    + Count(comparison_results[p][t].scenarios["aTN"], s)
    + Count(comparison_results[p][t].scenarios["aFP"], s)
    + Count(comparison_results[p][t].scenarios["aFN"], s)

\* s is in exactly the bucket m of tool t, once.
OnlyIn(p, t, s, m) == MetricsHolding(p, t, s) = {m} /\ TimesAwarded(p, t, s) = 1

CreditOf(execution) == IF execution = "SUCCESS" THEN "aTN" ELSE "aTP"

BlameOf(execution) == IF execution = "SUCCESS" THEN "aFN" ELSE "aFP"

\* Both tools of pair p hold an entry for every scenario of the universe.
Complete(p) ==
    Universe \subseteq (Keys(json_tool_results[p[1]]) \cap Keys(json_tool_results[p[2]]))

\* C5: comparing (A, B) and comparing (B, A) over the same table, in which
\* both tools have data for the whole universe, put every scenario in the same
\* bucket for A, and likewise for B.
C5_AntiSymmetric ==
    Done =>
        \A p \in PairSet :
            LET swapped == ComparePair(p[2], p[1], json_tool_results, expected_by_scenario)
            IN  Complete(p) =>
                    \A t \in {p[1], p[2]} : \A m \in Metrics :
                        comparison_results[p][t].scenarios[m] = swapped[t].scenarios[m]

\* C6: a scenario on which both tools have the same execution and the same
\* comparison status is in no pairwise bucket of either tool.
C6_NoAwardOnAgreement ==
    Done =>
        \A p \in PairSet : \A s \in Universe :
            Status(p[1], s) = Status(p[2], s)
            => TimesAwarded(p, p[1], s) = 0 /\ TimesAwarded(p, p[2], s) = 0

\* Both tools of a pair recorded FAILED with the same comparison status for a
\* scenario, and the pair has been compared.
C6_Witness ==
    /\ Done
    /\ \E p \in PairSet : \E s \in Universe :
           /\ s \in Keys(json_tool_results[p[1]])
           /\ s \in Keys(json_tool_results[p[2]])
           /\ Status(p[1], s) = Status(p[2], s)
           /\ Status(p[1], s)[1] = "FAILED"

\* C7: when exactly one tool's execution is FAILED, the failed tool gets no
\* bucket; the other gets exactly one when its comparison is MATCH (aTN for
\* SUCCESS, aTP otherwise) and none when it is not, whichever tool failed.
C7_OneSidedFailure ==
    Done =>
        \A p \in PairSet : \A s \in Universe :
            \A r \in {<<p[1], p[2]>>, <<p[2], p[1]>>} :
                LET failed == r[1]
                    other  == r[2]
                IN  (Status(failed, s)[1] = "FAILED" /\ Status(other, s)[1] # "FAILED")
                    => /\ TimesAwarded(p, failed, s) = 0
                       /\ IF Status(other, s)[2] = "MATCH"
                          THEN OnlyIn(p, other, s, CreditOf(Status(other, s)[1]))
                          ELSE TimesAwarded(p, other, s) = 0

\* The second tool of a pair failed and the first one matched while reporting
\* a conflict: the first tool holds the scenario in aTP.
C7_Witness ==
    /\ Done
    /\ \E p \in PairSet : \E s \in Universe :
           /\ Status(p[2], s)[1] = "FAILED"
           /\ Status(p[1], s) = <<"CONFLICT", "MATCH">>
           /\ comparison_results[p][p[1]].scenarios["aTP"] = <<s>>
           /\ comparison_results[p][p[1]].count["aTP"] = 1

\* C8: neither tool FAILED and exactly one comparison is MATCH: the matching
\* tool gets exactly one bucket (aTN for SUCCESS, aTP otherwise) and the other
\* tool exactly one (aFN for SUCCESS, aFP otherwise).
C8_ExactlyOneMatch ==
    Done =>
        \A p \in PairSet : \A s \in Universe :
            \A r \in {<<p[1], p[2]>>, <<p[2], p[1]>>} :
                LET right == r[1]
                    wrong == r[2]
                IN  (/\ Status(right, s)[1] # "FAILED"
                     /\ Status(wrong, s)[1] # "FAILED"
                     /\ Status(right, s)[2] = "MATCH"
                     /\ Status(wrong, s)[2] # "MATCH")
                    => /\ OnlyIn(p, right, s, CreditOf(Status(right, s)[1]))
                       /\ OnlyIn(p, wrong, s, BlameOf(Status(wrong, s)[1]))

\* Both tools reported a conflict, only the second one matched: it holds the
\* scenario in aTP and the first tool holds it in aFP.
C8_Witness ==
    /\ Done
    /\ \E p \in PairSet : \E s \in Universe :
           /\ Status(p[1], s) = <<"CONFLICT", "DIFFER">>
           /\ Status(p[2], s) = <<"CONFLICT", "MATCH">>
           /\ comparison_results[p][p[2]].scenarios["aTP"] = <<s>>
           /\ comparison_results[p][p[1]].scenarios["aFP"] = <<s>>

C10_MissingExcluded ==
    Done =>
        \A p \in PairSet : \A s \in Universe :
            (s \notin Keys(json_tool_results[p[1]]) \/ s \notin Keys(json_tool_results[p[2]]))
            => TimesAwarded(p, p[1], s) = 0 /\ TimesAwarded(p, p[2], s) = 0

\* C11: execution strings are recognized by substring containment in the
\* pairwise comparison too: a tool whose recorded execution string contains
\* FAILED receives no pairwise bucket when the other tool has a record whose
\* string does not.
C11_AnnotatedFailureUnscored ==
    Done =>
        \A p \in PairSet : \A s \in Universe :
            \A r \in {<<p[1], p[2]>>, <<p[2], p[1]>>} :
                (/\ s \in Keys(json_tool_results[r[2]])
                 /\ Contains("FAILED", Status(r[1], s)[1])
                 /\ ~Contains("FAILED", Status(r[2], s)[1]))
                => TimesAwarded(p, r[1], s) = 0

\* C12: on a scenario where one tool's execution is FAILED, the other tool
\* receives neither aFP nor aFN, whatever its own statuses are.
C12_NoBlameBesideFailure ==
    Done =>
        \A p \in PairSet : \A s \in Universe :
            \A r \in {<<p[1], p[2]>>, <<p[2], p[1]>>} :
                Status(r[1], s)[1] = "FAILED"
                => MetricsHolding(p, r[2], s) \cap {"aFP", "aFN"} = {}

Reverse(seq) == [i \in 1..Len(seq) |-> seq[Len(seq) + 1 - i]]

TimesIn(stats, s) ==
    Count(stats.scenarios["aTP"], s) + Count(stats.scenarios["aTN"], s)
    + Count(stats.scenarios["aFP"], s) + Count(stats.scenarios["aFN"], s)

\* The four lists of one tool's pairwise statistics are pairwise disjoint,
\* hold no scenario twice and hold scenarios of the universe only.
AtMostOneBucket(stats) ==
    /\ \A m1, m2 \in Metrics :
           m1 # m2 => SeqToSet(stats.scenarios[m1]) \cap SeqToSet(stats.scenarios[m2]) = {}
    /\ \A m \in Metrics : SeqToSet(stats.scenarios[m]) \subseteq Universe
    /\ \A s \in Universe : TimesIn(stats, s) <= 1

\* C13: in a pairwise comparison every scenario of the universe is in at most
\* one of aTP, aTN, aFP, aFN per tool and occurs at most once, after the whole
\* universe has been processed, in the order of the universe or in the
\* opposite order.
C13_AtMostOneBucket ==
    Done =>
        \A p \in PairSet :
            LET backwards == ComparePair(p[1], p[2], json_tool_results,
                                         Reverse(expected_by_scenario))
            IN  \A t \in {p[1], p[2]} :
                    /\ AtMostOneBucket(comparison_results[p][t])
                    /\ AtMostOneBucket(backwards[t])

\* One tool holds two scenarios of the universe in two different pairwise
\* buckets of the same comparison.
C13_Witness ==
    /\ Done
    /\ Len(expected_by_scenario) = 2
    /\ \E p \in PairSet : \E t \in {p[1], p[2]} : \E m1, m2 \in Metrics :
           /\ m1 # m2
           /\ comparison_results[p][t].scenarios[m1] = <<expected_by_scenario[1]>>
           /\ comparison_results[p][t].scenarios[m2] = <<expected_by_scenario[2]>>

\* What each tool has on record for a scenario after the runner went through it.
Recorded(tool, s) == Get(tool_results[tool], s, DefaultStatus)

\* C14: with --dry-run the runner executes no merge or diff command, raises no
\* error, and when it is done every scenario that has its four input files has
\* the status DRY_RUN on record for diff3, mergiraf-semi and mergiraf.
C14_DryRunCompletes ==
    args.dry_run =>
        /\ executed = <<>>
        /\ raised = ""
        /\ rpc # "raised"
        /\ rpc = "done" =>
               \A i \in 1..Len(ScenarioNames) :
                   complete[i] =>
                       \A t \in Tools : Recorded(t, ScenarioNames[i])[1] = "DRY_RUN"

\* C15: a scenario in a tool's aTP or aTN bucket has comparison MATCH for that
\* tool, and a scenario in its aFP or aFN bucket has a comparison other than
\* MATCH, for every combination of the two tools' recorded statuses.
C15_CreditOnlyWhenMatch ==
    Done =>
        \A p \in PairSet : \A s \in Universe :
            (s \in Keys(json_tool_results[p[1]]) /\ s \in Keys(json_tool_results[p[2]]))
            => \A t \in {p[1], p[2]} :
                   /\ MetricsHolding(p, t, s) \cap {"aTP", "aTN"} # {}
                          => Status(t, s)[2] = "MATCH"
                   /\ MetricsHolding(p, t, s) \cap {"aFP", "aFN"} # {}
                          => Status(t, s)[2] # "MATCH"

PositionIn(order, x) == CHOOSE i \in 1..Len(order) : order[i] = x

\* list holds elements of order, each after the ones that precede it in order.
InOrderOf(list, order) ==
    /\ SeqToSet(list) \subseteq SeqToSet(order)
    /\ \A i, j \in 1..Len(list) :
           i < j => PositionIn(order, list[i]) < PositionIn(order, list[j])

KeyOrder(d) == [i \in 1..Len(d) |-> d[i][1]]

\* The table with the outputs of the tools outside `tools` removed.
OnlyTools(results, tools) == [t \in Tools |-> IF t \in tools THEN results[t] ELSE <<>>]

\* C16: after every classified scenario, in the confusion matrix and in each
\* pairwise comparison, every bucket's count equals the length of its list;
\* each list holds its scenarios in the order of iteration; and the buckets of
\* one pair are what that pair's two tools alone produce.
C16_CountsMatchLists ==
    Done =>
        /\ \A t \in Tools :
               /\ \A k \in 0..Len(json_tool_results[t]) :
                      LET part == confusion_matrix(SubSeq(json_tool_results[t], 1, k))
                      IN  \A b \in Buckets : part.results[b] = Len(part.scenarios[b])
               /\ \A b \in Buckets :
                      /\ matrices[t].results[b] = Len(matrices[t].scenarios[b])
                      /\ InOrderOf(matrices[t].scenarios[b], KeyOrder(json_tool_results[t]))
        /\ \A p \in PairSet :
               /\ \A k \in 0..Len(expected_by_scenario) :
                      LET part == ComparePair(p[1], p[2], json_tool_results,
                                              SubSeq(expected_by_scenario, 1, k))
                      IN  \A t \in {p[1], p[2]} : \A m \in Metrics :
                              part[t].count[m] = Len(part[t].scenarios[m])
               /\ \A t \in {p[1], p[2]} : \A m \in Metrics :
                      /\ comparison_results[p][t].count[m]
                             = Len(comparison_results[p][t].scenarios[m])
                      /\ InOrderOf(comparison_results[p][t].scenarios[m], expected_by_scenario)
               /\ comparison_results[p]
                      = ComparePair(p[1], p[2], OnlyTools(json_tool_results, {p[1], p[2]}),
                                    expected_by_scenario)

\* A tool that belongs to two pairs holds two scenarios in one bucket of one
\* pair and a different content in the other pair, and its confusion matrix
\* holds two scenarios in one bucket.
C16_Witness ==
    /\ Done
    /\ \E t \in Tools : \E b \in Buckets : Len(matrices[t].scenarios[b]) = 2
    /\ \E p, q \in PairSet : \E t \in {p[1], p[2]} \cap {q[1], q[2]} : \E m \in Metrics :
           /\ p # q
           /\ comparison_results[p][t].scenarios[m] = expected_by_scenario
           /\ comparison_results[p][t].count[m] = 2
           /\ comparison_results[q][t] # comparison_results[p][t]

====
